---- MODULE Spec2Model ----
(***************************************************************************)
(* Model of src/src/repositories/user.js: the retrying query executor      *)
(* (queryWithRetry), the UserRepository CRUD methods built on it, and the  *)
(* users table behind the pg pool.                                         *)
(*                                                                         *)
(* Every repository call is an async function.  Its steps are the pieces   *)
(* of code between two suspension points: from the call to the first       *)
(* `await pool.query`, from the settlement of a pool call to the next      *)
(* suspension (return, throw, or `await` of the backoff timer), and from   *)
(* the timer to the next pool call.                                        *)
(***************************************************************************)
EXTENDS Integers, Sequences, FiniteSets, TLC

\* ------------------------------------------------------------------ bounds
\* Number of user ids the store can generate (serial ids "id1", "id2", ...).
MaxId == 2
\* Number of termination signals delivered to the process.
MaxSignals == 2

\* ------------------------------------------------------- program constants
\* queryWithRetry(query, params, maxRetries = 3)
maxRetries == 3
\* setTimeout(resolve, 1000 * (i + 1))
BackoffUnit == 1000

\* ------------------------------------------------------------------ values
\* The activations of repository methods the model tracks at one time.
Calls == {1, 2}

IdNames == <<"id1", "id2", "id3", "id4", "id5">>
Ids == {IdNames[k] : k \in 1..MaxId}

\* JavaScript `undefined` (a missing property) and SQL NULL.
Undefined == "<undefined>"
Null == "<null>"
\* Strings a caller passes as name and as email.
Names == {"", "a", "b"}
Emails == {"", "x"}

\* userData: isObject = FALSE stands for a missing argument (undefined, null).
NoData == [isObject |-> FALSE, name |-> Undefined, email |-> Undefined]
UserDatas ==
    {NoData} \cup [isObject : {TRUE}, name : {Undefined} \cup Names,
                         email : {Undefined} \cup Emails]

\* JavaScript truthiness of a field value: `!x` is true for undefined, null, "".
Truthy(v) == v \notin {Undefined, Null, ""}

\* Errors the pool call rejects with.  Each rejection is its own Error object:
\* `attempt` is the ordinal of the pool call (within its repository call).
ErrorKinds == {"ETIMEDOUT", "23505"}
NoError == [kind |-> "none", attempt |-> 0]
PoolError(k, n) == [kind |-> k, attempt |-> n]
CreateValidationError == [kind |-> "User data must include name and email", attempt |-> 0]
UpdateValidationError ==
    [kind |-> "User data must include at least name or email to update", attempt |-> 0]

\* ------------------------------------------------------------- statements
\* A parameterised statement: its kind, its column assignments (column and the
\* index n of its placeholder $n) and the index of the WHERE placeholder
\* (0: the statement has no WHERE clause).
NoQuery == [kind |-> "none", sets |-> <<>>, where |-> 0]

\* 'SELECT * FROM users WHERE id = $1'
SelectByIdQueryPasted == [kind |-> "DELETE", sets |-> <<>>, where |-> 1]

SelectByIdQuery == [kind |-> "SELECT", sets |-> <<>>, where |-> 1]
\* 'SELECT * FROM users'
SelectAllQuery == [kind |-> "SELECT", sets |-> <<>>, where |-> 0]
\* 'INSERT INTO users (name, email) VALUES ($1, $2) RETURNING *'
InsertQuerySwapped ==
    [kind |-> "INSERT",
     sets |-> <<[col |-> "name", ph |-> 2], [col |-> "email", ph |-> 1]>>,
     where |-> 0]

InsertQuery ==
    [kind |-> "INSERT",
     sets |-> <<[col |-> "name", ph |-> 1], [col |-> "email", ph |-> 2]>>,
     where |-> 0]
\* 'DELETE FROM users WHERE id = $1 RETURNING *'
DeleteQuery == [kind |-> "DELETE", sets |-> <<>>, where |-> 1]

\* The dynamic update builder of update(): updates, values and paramCount.
UpdateBuilderSkipsCount(userId, userData) ==
    LET hasName  == userData.name # Undefined
        hasEmail == userData.email # Undefined
        updates1 == IF hasName THEN <<[col |-> "name", ph |-> 1]>> ELSE <<>>
        values1  == IF hasName THEN <<userData.name>> ELSE <<>>
        \* bug: paramCount is not incremented after the name assignment
        paramCount1 == 1
        updates2 == IF hasEmail
                      THEN Append(updates1, [col |-> "email", ph |-> paramCount1])
                      ELSE updates1
        values2  == IF hasEmail THEN Append(values1, userData.email) ELSE values1
        paramCount2 == IF hasEmail THEN paramCount1 + 1 ELSE paramCount1
    IN  [query  |-> [kind |-> "UPDATE", sets |-> updates2, where |-> paramCount2],
         params |-> Append(values2, userId)]

UpdateBuilderAlwaysEmail(userId, userData) ==
    LET hasName  == userData.name # Undefined
        updates1 == IF hasName THEN <<[col |-> "name", ph |-> 1]>> ELSE <<>>
        values1  == IF hasName THEN <<userData.name>> ELSE <<>>
        paramCount1 == IF hasName THEN 2 ELSE 1
        \* bug: the email assignment is not guarded by `!== undefined`
        updates2 == Append(updates1, [col |-> "email", ph |-> paramCount1])
        values2  == Append(values1, userData.email)
        paramCount2 == paramCount1 + 1
    IN  [query  |-> [kind |-> "UPDATE", sets |-> updates2, where |-> paramCount2],
         params |-> Append(values2, userId)]

UpdateBuilder(userId, userData) ==
    LET hasName  == userData.name # Undefined
        hasEmail == userData.email # Undefined
        updates1 == IF hasName THEN <<[col |-> "name", ph |-> 1]>> ELSE <<>>
        values1  == IF hasName THEN <<userData.name>> ELSE <<>>
        paramCount1 == IF hasName THEN 2 ELSE 1
        updates2 == IF hasEmail
                      THEN Append(updates1, [col |-> "email", ph |-> paramCount1])
                      ELSE updates1
        values2  == IF hasEmail THEN Append(values1, userData.email) ELSE values1
        paramCount2 == IF hasEmail THEN paramCount1 + 1 ELSE paramCount1
    IN  [query  |-> [kind |-> "UPDATE", sets |-> updates2, where |-> paramCount2],
         params |-> Append(values2, userId)]

\* ------------------------------------------------------------------ store
\* The users table: a heap of MaxId tuple slots, each empty or holding a row.
Slots == 1..MaxId
NoRow == [id |-> "<none>", name |-> Null, email |-> Null]

\* A bind parameter as the driver sends it: undefined is sent as NULL.
Bind(params, n) ==
    IF n \in DOMAIN params
      THEN (IF params[n] = Undefined THEN Null ELSE params[n])
      ELSE Null

\* Every placeholder of the statement has a bind parameter and vice versa.
WellFormed(query, params) ==
    LET phs == {query.sets[k].ph : k \in DOMAIN query.sets}
                 \cup (IF query.where = 0 THEN {} ELSE {query.where})
    IN  phs = DOMAIN params

\* The value a statement assigns to column col (the last assignment wins), or
\* dflt when the statement does not assign it.
Assigned(query, params, col, dflt) ==
    LET ks == {k \in DOMAIN query.sets : query.sets[k].col = col}
    IN  IF ks = {} THEN dflt
        ELSE Bind(params, query.sets[CHOOSE k \in ks : \A j \in ks : j <= k].ph)

\* The rows of table `st` in slots `ss`, in heap order.
RECURSIVE RowsIn(_, _)
RowsIn(st, ss) ==
    IF ss = {} THEN <<>>
    ELSE LET s == CHOOSE x \in ss : \A y \in ss : x <= y
         IN  <<st[s]>> \o RowsIn(st, ss \ {s})

Matching(st, query, params) ==
    {s \in Slots : st[s] # NoRow
                   /\ (query.where = 0 \/ st[s].id = Bind(params, query.where))}

FreeSlots(st) == {s \in Slots : st[s] = NoRow}

\* The effect of one statement on the table: the new table, the new value of
\* the id sequence, and the rows the statement returns.
Execute(st, nid, query, params) ==
    LET hit == Matching(st, query, params)
    IN  CASE query.kind = "SELECT" ->
               [store |-> st, nextId |-> nid, rows |-> RowsIn(st, hit)]
          [] query.kind = "INSERT" ->
               LET s   == CHOOSE x \in FreeSlots(st) : \A y \in FreeSlots(st) : x <= y
                   row == [id    |-> IdNames[nid],
                           name  |-> Assigned(query, params, "name", Null),
                           email |-> Assigned(query, params, "email", Null)]
               IN  [store |-> [st EXCEPT ![s] = row], nextId |-> nid + 1,
                    rows |-> <<row>>]
          [] query.kind = "UPDATE" ->
               LET new == [s \in Slots |->
                            IF s \in hit
                              THEN [id    |-> st[s].id,
                                    name  |-> Assigned(query, params, "name", st[s].name),
                                    email |-> Assigned(query, params, "email", st[s].email)]
                              ELSE st[s]]
               IN  [store |-> new, nextId |-> nid, rows |-> RowsIn(new, hit)]
          [] query.kind = "DELETE" ->
               [store |-> [s \in Slots |-> IF s \in hit THEN NoRow ELSE st[s]],
                nextId |-> nid, rows |-> RowsIn(st, hit)]

\* The statement can run: it is well formed, and an INSERT has a slot and an
\* id left.
Executable(st, nid, query, params) ==
    /\ WellFormed(query, params)
    /\ query.kind = "INSERT" => (nid <= MaxId /\ FreeSlots(st) # {})

\* ------------------------------------------------------------------ state
VARIABLES
    store,      \* the users table: slot -> row or NoRow
    nextId,     \* the id sequence of the table
    pc,         \* per call: "idle", "query", "backoff", "returned", "threw"
    op,         \* per call: the repository method
    userId,     \* per call: the userId argument
    userData,   \* per call: the userData argument
    query,      \* per call: the statement passed to queryWithRetry
    params,     \* per call: its parameter list
    i,          \* per call: the loop counter of queryWithRetry
    thrown,     \* per call: the error the call rejected with
    result,     \* per call: the value the call resolved with
    nQueries,   \* per call: pool.query invocations made so far
    delays,     \* per call: the setTimeout delays awaited so far (ms)
    errs,       \* per call: the errors its pool calls rejected with
    okRows,     \* per call: the rows of its pool call that resolved
    effects,    \* per call: the rows returned by each execution of its
                \* statement in the store, reported to the call or not
    lastAll,    \* the rows of the latest findAll that resolved, and how many
                \* findAll resolved since a create, update or delete last ran
    endCalls,   \* pool.end() invocations made so far
    drained     \* pool.end() has completed: every connection is closed

vars == <<store, nextId, pc, op, userId, userData, query, params, i, thrown,
          result, nQueries, delays, errs, okRows, effects, lastAll, endCalls,
          drained>>

poolVars == <<endCalls, drained>>

\* Values a repository call resolves with.
NoResult        == [tag |-> "none", rows |-> <<>>]
NullResult      == [tag |-> "null", rows |-> <<>>]
UndefinedResult == [tag |-> "undefined", rows |-> <<>>]
RowResult(row)  == [tag |-> "row", rows |-> <<row>>]
ArrayResult(rs) == [tag |-> "array", rows |-> rs]

\* No findAll has resolved since the store was last written.
NoneSeen == [n |-> 0, rows |-> {}]

Init ==
    /\ store = [s \in Slots |-> NoRow]
    /\ nextId = 1
    /\ pc = [c \in Calls |-> "idle"]
    /\ op = [c \in Calls |-> "none"]
    /\ userId = [c \in Calls |-> Undefined]
    /\ userData = [c \in Calls |-> NoData]
    /\ query = [c \in Calls |-> NoQuery]
    /\ params = [c \in Calls |-> <<>>]
    /\ i = [c \in Calls |-> 0]
    /\ thrown = [c \in Calls |-> NoError]
    /\ result = [c \in Calls |-> NoResult]
    /\ nQueries = [c \in Calls |-> 0]
    /\ delays = [c \in Calls |-> <<>>]
    /\ errs = [c \in Calls |-> <<>>]
    /\ okRows = [c \in Calls |-> <<>>]
    /\ effects = [c \in Calls |-> <<>>]
    /\ lastAll = NoneSeen
    /\ endCalls = 0
    /\ drained = FALSE

\* --------------------------------------------------------- queryWithRetry
\* `1000 * (i + 1)`
BackoffDelayFromZero(n) == BackoffUnit * n

BackoffDelay(n) == BackoffUnit * (n + 1)

\* `i === maxRetries - 1`
IsLastAttemptEarly(n) == n = maxRetries - 2

IsLastAttemptNever(n) == FALSE

IsLastAttempt(n) == n = maxRetries - 1

\* `if (i === maxRetries - 1) throw error;`: whether the catch block rethrows
\* the error caught on the attempt with loop counter n.
RethrowsNonTransient(error, n) == IsLastAttempt(n) \/ error.kind = "23505"

Rethrows(error, n) == IsLastAttempt(n)

\* `i < maxRetries`
LoopCond(n) == n < maxRetries

\* The repository methods' `catch (error) { console.error(...); throw error; }`
RepoCatchWraps(e) == [kind |-> "Error", attempt |-> 0]

RepoCatch(e) == e

\* What `return result.rows[0] || null` and its siblings return.
findByIdReturnNoDefault(rows) ==
    IF rows # <<>> THEN RowResult(rows[1]) ELSE UndefinedResult

findByIdReturn(rows) ==
    IF rows # <<>> THEN RowResult(rows[1]) ELSE NullResult

findAllReturn(rows) == ArrayResult(rows)

createReturn(rows) ==
    IF rows # <<>> THEN RowResult(rows[1]) ELSE UndefinedResult

updateReturn(rows) ==
    IF rows # <<>> THEN RowResult(rows[1]) ELSE UndefinedResult

deleteReturn(rows) ==
    IF rows # <<>> THEN RowResult(rows[1]) ELSE UndefinedResult

Return(o, rows) ==
    CASE o = "findById" -> findByIdReturn(rows)
      [] o = "findAll"  -> findAllReturn(rows)
      [] o = "create"   -> createReturn(rows)
      [] o = "update"   -> updateReturn(rows)
      [] o = "delete"   -> deleteReturn(rows)

\* The state of a pool.query just issued: "query", the statement is on its
\* way to the store; "rejecting", the pool was ended before and the call can
\* only reject.
Issued == IF endCalls > 0 THEN "rejecting" ELSE "query"

\* A repository method runs up to its first suspension: it passes q and p to
\* queryWithRetry, which sets i = 0 and issues the first pool.query.
EnterSharedCounter(c, o, id, data, q, p) ==
    /\ pc[c] = "idle"
    /\ pc' = [pc EXCEPT ![c] = Issued]
    /\ op' = [op EXCEPT ![c] = o]
    /\ userId' = [userId EXCEPT ![c] = id]
    /\ userData' = [userData EXCEPT ![c] = data]
    /\ query' = [query EXCEPT ![c] = q]
    /\ params' = [params EXCEPT ![c] = p]
    \* bug: the loop counter is shared by all calls and is not reset
    /\ i' = [i EXCEPT ![c] = CHOOSE n \in {i[d] : d \in Calls} :
                                \A d \in Calls : i[d] <= n]
    /\ nQueries' = [nQueries EXCEPT ![c] = 1]
    /\ UNCHANGED <<store, nextId, thrown, result, delays, errs, okRows,
                   effects, lastAll, poolVars>>

EnterSerialized(c, o, id, data, q, p) ==
    /\ pc[c] = "idle"
    \* bug: a call waits until no other call is in a pool call or a backoff
    /\ \A d \in Calls : pc[d] \notin {"query", "rejecting", "backoff"}
    /\ pc' = [pc EXCEPT ![c] = Issued]
    /\ op' = [op EXCEPT ![c] = o]
    /\ userId' = [userId EXCEPT ![c] = id]
    /\ userData' = [userData EXCEPT ![c] = data]
    /\ query' = [query EXCEPT ![c] = q]
    /\ params' = [params EXCEPT ![c] = p]
    /\ i' = [i EXCEPT ![c] = 0]
    /\ nQueries' = [nQueries EXCEPT ![c] = 1]
    /\ UNCHANGED <<store, nextId, thrown, result, delays, errs, okRows,
                   effects, lastAll, poolVars>>

Enter(c, o, id, data, q, p) ==
    /\ pc[c] = "idle"
    /\ pc' = [pc EXCEPT ![c] = Issued]
    /\ op' = [op EXCEPT ![c] = o]
    /\ userId' = [userId EXCEPT ![c] = id]
    /\ userData' = [userData EXCEPT ![c] = data]
    /\ query' = [query EXCEPT ![c] = q]
    /\ params' = [params EXCEPT ![c] = p]
    /\ i' = [i EXCEPT ![c] = 0]
    /\ nQueries' = [nQueries EXCEPT ![c] = 1]
    /\ UNCHANGED <<store, nextId, thrown, result, delays, errs, okRows,
                   effects, lastAll, poolVars>>

\* A repository method throws before it reaches queryWithRetry.
Refuse(c, o, id, data, e) ==
    /\ pc[c] = "idle"
    /\ pc' = [pc EXCEPT ![c] = "threw"]
    /\ op' = [op EXCEPT ![c] = o]
    /\ userId' = [userId EXCEPT ![c] = id]
    /\ userData' = [userData EXCEPT ![c] = data]
    /\ thrown' = [thrown EXCEPT ![c] = e]
    /\ UNCHANGED <<store, nextId, query, params, i, result, nQueries, delays,
                   errs, okRows, effects, lastAll, poolVars>>

\* ------------------------------------------------------------- repository
findById(c, id) ==
    Enter(c, "findById", id, NoData, SelectByIdQuery, <<id>>)

findAll(c) ==
    Enter(c, "findAll", Undefined, NoData, SelectAllQuery, <<>>)

\* `!userData || !userData.name || !userData.email`
createInvalidNameOnly(data) == ~data.isObject \/ ~Truthy(data.name)

createInvalid(data) ==
    ~data.isObject \/ ~Truthy(data.name) \/ ~Truthy(data.email)

create(c, data) ==
    IF createInvalid(data)
      THEN Refuse(c, "create", Undefined, data, CreateValidationError)
      ELSE Enter(c, "create", Undefined, data, InsertQuery,
                 <<data.name, data.email>>)

\* `!userData || (!userData.name && !userData.email)`
updateInvalidIfUndefined(data) ==
    ~data.isObject \/ (data.name = Undefined /\ data.email = Undefined)

updateInvalid(data) ==
    ~data.isObject \/ (~Truthy(data.name) /\ ~Truthy(data.email))

update(c, id, data) ==
    IF updateInvalid(data)
      THEN Refuse(c, "update", id, data, UpdateValidationError)
      ELSE LET b == UpdateBuilder(id, data)
           IN  Enter(c, "update", id, data, b.query, b.params)

delete(c, id) ==
    Enter(c, "delete", id, NoData, DeleteQuery, <<id>>)

\* ------------------------------------------------------------------- pool
\* The set of the rows of a sequence of rows.
RowSet(rows) == {rows[k] : k \in DOMAIN rows}

\* lastAll after the statement of method o ran in the store and returned
\* `rows` to the pool.
Seen(o, rows) ==
    CASE o = "findAll" ->
           [n |-> IF lastAll.n = 0 THEN 1 ELSE 2, rows |-> RowSet(rows)]
      [] o \in {"create", "update", "delete"} -> NoneSeen
      [] OTHER -> lastAll

\* lastAll follows a step of the pool: it changes when the statement of some
\* call ran in the store.
TrackReads ==
    LET ran == {c \in Calls : Len(effects'[c]) > Len(effects[c])}
    IN  IF ran = {}
          THEN lastAll' = lastAll
          ELSE LET c == CHOOSE d \in ran : TRUE
               IN  lastAll' = Seen(op[c], effects'[c][Len(effects'[c])])

\* `return await pool.query(query, params)`: the statement runs and the pool
\* call resolves; queryWithRetry returns, and so does the repository method.
PoolResolve(c) ==
    /\ pc[c] = "query"
    /\ Executable(store, nextId, query[c], params[c])
    /\ LET r == Execute(store, nextId, query[c], params[c])
       IN  /\ store' = r.store
           /\ nextId' = r.nextId
           /\ okRows' = [okRows EXCEPT ![c] = r.rows]
           /\ effects' = [effects EXCEPT ![c] = Append(@, r.rows)]
           /\ result' = [result EXCEPT ![c] = Return(op[c], r.rows)]
    /\ pc' = [pc EXCEPT ![c] = "returned"]
    /\ UNCHANGED <<op, userId, userData, query, params, i, thrown, nQueries,
                   delays, errs, poolVars>>

\* The pool call rejects with an error of kind k.  `applied`: the statement
\* took effect in the store before the failure was reported (a timeout or a
\* lost connection after the commit).  The catch block of queryWithRetry then
\* rethrows on the last attempt and otherwise starts the backoff timer.
PoolReject(c, k, applied) ==
    /\ pc[c] \in {"query", "rejecting"}
    /\ IF applied
         THEN /\ pc[c] = "query"
              /\ Executable(store, nextId, query[c], params[c])
              /\ query[c].kind # "SELECT"
              /\ LET r == Execute(store, nextId, query[c], params[c])
                 IN  /\ store' = r.store
                     /\ nextId' = r.nextId
                     /\ effects' = [effects EXCEPT ![c] = Append(@, r.rows)]
         ELSE UNCHANGED <<store, nextId, effects>>
    /\ LET error == PoolError(k, nQueries[c])
       IN  /\ errs' = [errs EXCEPT ![c] = Append(@, error)]
           /\ IF Rethrows(error, i[c])
                THEN /\ pc' = [pc EXCEPT ![c] = "threw"]
                     /\ thrown' = [thrown EXCEPT ![c] = RepoCatch(error)]
                     /\ UNCHANGED delays
                ELSE /\ pc' = [pc EXCEPT ![c] = "backoff"]
                     /\ delays' = [delays EXCEPT ![c] = Append(@, BackoffDelay(i[c]))]
                     /\ UNCHANGED thrown
    /\ UNCHANGED <<op, userId, userData, query, params, i, result, nQueries,
                   okRows, poolVars>>

\* The backoff timer fires: i++, and if `i < maxRetries` the next pool.query
\* is issued.  Otherwise the loop ends, queryWithRetry returns undefined and
\* `result.rows` throws a TypeError in the repository method.
TimerFires(c) ==
    /\ pc[c] = "backoff"
    /\ i' = [i EXCEPT ![c] = @ + 1]
    /\ IF LoopCond(i[c] + 1)
         THEN /\ pc' = [pc EXCEPT ![c] = Issued]
              /\ nQueries' = [nQueries EXCEPT ![c] = @ + 1]
              /\ UNCHANGED thrown
         ELSE /\ pc' = [pc EXCEPT ![c] = "threw"]
              /\ thrown' = [thrown EXCEPT ![c] =
                              RepoCatch([kind |-> "TypeError", attempt |-> 0])]
              /\ UNCHANGED nQueries
    /\ UNCHANGED <<store, nextId, op, userId, userData, query, params, result,
                   delays, errs, okRows, effects, lastAll, poolVars>>

\* The caller has taken the outcome of call c; the slot is free for the next
\* call.
Settle(c) ==
    /\ pc[c] \in {"returned", "threw"}
    /\ pc' = [pc EXCEPT ![c] = "idle"]
    /\ op' = [op EXCEPT ![c] = "none"]
    /\ userId' = [userId EXCEPT ![c] = Undefined]
    /\ userData' = [userData EXCEPT ![c] = NoData]
    /\ query' = [query EXCEPT ![c] = NoQuery]
    /\ params' = [params EXCEPT ![c] = <<>>]
    /\ i' = [i EXCEPT ![c] = 0]
    /\ thrown' = [thrown EXCEPT ![c] = NoError]
    /\ result' = [result EXCEPT ![c] = NoResult]
    /\ nQueries' = [nQueries EXCEPT ![c] = 0]
    /\ delays' = [delays EXCEPT ![c] = <<>>]
    /\ errs' = [errs EXCEPT ![c] = <<>>]
    /\ okRows' = [okRows EXCEPT ![c] = <<>>]
    /\ effects' = [effects EXCEPT ![c] = <<>>]
    /\ UNCHANGED <<store, nextId, lastAll, poolVars>>

\* The activation a new call takes: the lowest idle one.
Fresh(c) == pc[c] = "idle" /\ \A d \in Calls : pc[d] = "idle" => c <= d

\* No call is in flight or waiting for its caller.
Quiet == \A c \in Calls : pc[c] = "idle"

\* The caller awaits each call before it makes the next one.  (lastAll is
\* not followed here.)
Next ==
    \/ \E c \in Calls, id \in Ids : Quiet /\ Fresh(c) /\ findById(c, id)
    \/ \E c \in Calls : Quiet /\ Fresh(c) /\ findAll(c)
    \/ \E c \in Calls, data \in UserDatas : Quiet /\ Fresh(c) /\ create(c, data)
    \/ \E c \in Calls, id \in Ids, data \in UserDatas :
          Quiet /\ Fresh(c) /\ update(c, id, data)
    \/ \E c \in Calls, id \in Ids : Quiet /\ Fresh(c) /\ delete(c, id)
    \/ \E c \in Calls : PoolResolve(c) /\ UNCHANGED lastAll
    \/ \E c \in Calls, k \in ErrorKinds, applied \in BOOLEAN :
          PoolReject(c, k, applied) /\ UNCHANGED lastAll
    \/ \E c \in Calls : TimerFires(c)
    \/ \E c \in Calls : Settle(c)

Spec == Init /\ [][Next]_vars

\* ------------------------------------------------------- concurrent callers
\* Concurrent callers draw their arguments from smaller sets: one user to
\* create, one partial update, the first id the store generates, and one kind
\* of pool error.
ConcurrentCreates == {[isObject |-> TRUE, name |-> "a", email |-> "x"]}
ConcurrentUpdates == {[isObject |-> TRUE, name |-> "b", email |-> Undefined]}
ConcurrentIds == {IdNames[1]}
ConcurrentKinds == {"ETIMEDOUT"}

\* A caller invokes a method, whatever the other calls are doing.
Invoke(c) ==
    \/ \E id \in ConcurrentIds : Fresh(c) /\ findById(c, id)
    \/ Fresh(c) /\ findAll(c)
    \/ \E data \in ConcurrentCreates : Fresh(c) /\ create(c, data)
    \/ \E id \in ConcurrentIds, data \in ConcurrentUpdates :
          Fresh(c) /\ update(c, id, data)
    \/ \E id \in ConcurrentIds : Fresh(c) /\ delete(c, id)

\* The pool call of c settles.
PoolSettles(c) ==
    \/ PoolResolve(c) /\ TrackReads
    \/ \E k \in ConcurrentKinds, applied \in BOOLEAN :
          PoolReject(c, k, applied) /\ TrackReads

NextConcurrent ==
    \/ \E c \in Calls : Invoke(c)
    \/ \E c \in Calls : PoolSettles(c)
    \/ \E c \in Calls : TimerFires(c)
    \/ \E c \in Calls : Settle(c)

SpecConcurrent == Init /\ [][NextConcurrent]_vars

\* ------------------------------------------------------------- termination
\* The pool call of c settles and its reply is not lost: it resolves, or it
\* rejects with the statement not run.  (lastAll is not followed here.)
PoolAnswers(c) ==
    \/ PoolResolve(c) /\ UNCHANGED lastAll
    \/ \E k \in ConcurrentKinds : PoolReject(c, k, FALSE) /\ UNCHANGED lastAll

NextLive ==
    \/ \E c \in Calls : Invoke(c)
    \/ \E c \in Calls : PoolAnswers(c)
    \/ \E c \in Calls : TimerFires(c)
    \/ \E c \in Calls : Settle(c)

\* Every pool call eventually resolves or rejects and every backoff timer
\* eventually fires.
Fairness ==
    \A c \in Calls : WF_vars(PoolAnswers(c)) /\ WF_vars(TimerFires(c))

SpecLive == Init /\ [][NextLive]_vars /\ Fairness

\* ---------------------------------------------------------------- shutdown
Signals == {"SIGTERM", "SIGINT"}

\* process.on('SIGTERM' / 'SIGINT', async () => { await pool.end(); }): the
\* handler of either signal calls pool.end(), whatever was called before and
\* whatever the repository calls are doing.  Installing a handler replaces
\* the signal's default action, and neither handler calls process.exit.
Signal(sig) ==
    /\ endCalls < MaxSignals
    /\ endCalls' = endCalls + 1
    /\ UNCHANGED <<store, nextId, pc, op, userId, userData, query, params, i,
                   thrown, result, nQueries, delays, errs, okRows, effects,
                   lastAll, drained>>

\* `await pool.end()` completes: the pool has closed every connection, which
\* it does once no statement is running on one.
PoolEnded ==
    /\ endCalls > 0
    /\ ~drained
    /\ \A c \in Calls : pc[c] # "query"
    /\ drained' = TRUE
    /\ UNCHANGED <<store, nextId, pc, op, userId, userData, query, params, i,
                   thrown, result, nQueries, delays, errs, okRows, effects,
                   lastAll, endCalls>>

NextShutdown ==
    \/ \E c \in Calls : Invoke(c)
    \/ \E c \in Calls : PoolAnswers(c)
    \/ \E c \in Calls : TimerFires(c)
    \/ \E c \in Calls : Settle(c)
    \/ \E sig \in Signals : Signal(sig)
    \/ PoolEnded

SpecShutdown == Init /\ [][NextShutdown]_vars

\* ----------------------------------------------------------------- claims
ValidationErrors == {CreateValidationError, UpdateValidationError}

\* C1: a repository operation whose pool calls all fail rejects only after
\* exactly 3 pool calls, having waited 1000 ms after the 1st failure and
\* 2000 ms after the 2nd (3000 ms in all), with no wait after the 3rd: a call
\* that rejected with a store error made 3 pool calls, all failed, and awaited
\* exactly the delays <<1000, 2000>>; a call whose 3 pool calls failed has
\* rejected; a call with fewer failures and no validation error has not.
C1_FailsAfterMaxAttempts ==
    \A c \in Calls :
        /\ (pc[c] = "threw" /\ thrown[c] \notin ValidationErrors)
             => /\ nQueries[c] = 3
                /\ Len(errs[c]) = 3
                /\ delays[c] = <<1000, 2000>>
        /\ Len(errs[c]) = 3 => (pc[c] = "threw" /\ Len(delays[c]) = 2)
        /\ (nQueries[c] > 0 /\ Len(errs[c]) < 3) => pc[c] # "threw"

\* An update rejected after three failed pool calls.
C1_Witness ==
    \E c \in Calls :
        /\ op[c] = "update"
        /\ pc[c] = "threw"
        /\ Len(errs[c]) = 3
        /\ thrown[c] \notin ValidationErrors

\* C2: a call whose first k pool calls fail (0 <= k < 3) and whose pool call
\* k+1 resolves returns the rows of that pool call with no error, after
\* exactly the k delays 1000, ..., 1000*k and exactly k+1 pool calls; while
\* the outcome waits for the caller no further pool call is made.
C2_ReturnsAfterKFailures ==
    \A c \in Calls :
        pc[c] = "returned" =>
            LET k == Len(errs[c])
            IN  /\ k < 3
                /\ nQueries[c] = k + 1
                /\ delays[c] = [j \in 1..k |-> 1000 * j]
                /\ thrown[c] = NoError
                /\ result[c].rows =
                     (IF op[c] = "findAll" \/ okRows[c] = <<>>
                        THEN okRows[c] ELSE <<okRows[c][1]>>)

\* A delete that returned the deleted row on its third attempt.
C2_Witness ==
    \E c \in Calls :
        /\ op[c] = "delete"
        /\ pc[c] = "returned"
        /\ Len(errs[c]) = 2
        /\ result[c].tag = "row"

\* C3: when all pool calls of a repository operation fail, the error the
\* caller gets is the error object of the final (3rd) attempt, unchanged;
\* the errors of attempts 1 and 2 are not delivered.
C3_ThrowsFinalError ==
    \A c \in Calls :
        (pc[c] = "threw" /\ errs[c] # <<>>) =>
            /\ thrown[c] = errs[c][Len(errs[c])]
            /\ thrown[c].attempt = 3
            /\ \A n \in 1..(Len(errs[c]) - 1) : thrown[c] # errs[c][n]

\* findById rejected with the error of attempt 3, of another kind than the
\* errors of attempts 1 and 2.
C3_Witness ==
    \E c \in Calls :
        /\ op[c] = "findById"
        /\ pc[c] = "threw"
        /\ Len(errs[c]) = 3
        /\ errs[c][1].kind = "ETIMEDOUT"
        /\ errs[c][2].kind = "ETIMEDOUT"
        /\ thrown[c].kind = "23505"

\* data is absent, or its name or email is missing or empty.
C4_Invalid(data) ==
    \/ ~data.isObject
    \/ data.name \in {Undefined, ""}
    \/ data.email \in {Undefined, ""}

\* C4: create(data) with data absent, or with a missing or empty name or
\* email, rejects with the validation error, makes no pool call and awaits no
\* backoff, and leaves the store as it was.
C4_CreateValidation ==
    [][\A c \in Calls :
          (op'[c] = "create" /\ C4_Invalid(userData'[c])) =>
              /\ pc'[c] = "threw"
              /\ thrown'[c] = CreateValidationError
              /\ nQueries'[c] = 0
              /\ delays'[c] = <<>>
              /\ errs'[c] = <<>>
              /\ pc[c] = "idle" => (store' = store /\ nextId' = nextId)]_vars

\* create({name: "a", email: ""}) was rejected without a pool call.
C4_Witness ==
    \E c \in Calls :
        /\ op[c] = "create"
        /\ pc[c] = "threw"
        /\ userData[c] = [isObject |-> TRUE, name |-> "a", email |-> ""]
        /\ nQueries[c] = 0

\* C5 as stated: update(id, data) rejects with the validation error, with no
\* pool call, exactly when neither name nor email is present in data, and
\* otherwise issues an UPDATE statement.
C5_Original ==
    \A c \in Calls :
        op[c] = "update" =>
            IF userData[c].name = Undefined /\ userData[c].email = Undefined
              THEN thrown[c] = UpdateValidationError /\ nQueries[c] = 0
              ELSE nQueries[c] >= 1 /\ query[c].kind = "UPDATE"

\* Neither name nor email of data is a non-empty value.
C5_NothingToSet(data) ==
    \/ ~data.isObject
    \/ (data.name \in {Undefined, ""} /\ data.email \in {Undefined, ""})

\* C5 amended: update(id, data) rejects with the validation error, making no
\* pool call and leaving the store as it was, exactly when data is absent or
\* neither name nor email is a non-empty value of data (missing or empty);
\* whenever at least one of them is non-empty an UPDATE statement is issued.
C5_UpdateValidation ==
    [][\A c \in Calls :
          op'[c] = "update" =>
              IF C5_NothingToSet(userData'[c])
                THEN /\ pc'[c] = "threw"
                     /\ thrown'[c] = UpdateValidationError
                     /\ nQueries'[c] = 0
                     /\ pc[c] = "idle" => (store' = store /\ nextId' = nextId)
                ELSE /\ nQueries'[c] >= 1
                     /\ query'[c].kind = "UPDATE"
                     /\ thrown'[c] # UpdateValidationError
                     /\ pc[c] = "idle" => pc'[c] = "query"]_vars

\* update(id, {name: ""}) was rejected without a pool call.
C5_Witness ==
    \E c \in Calls :
        /\ op[c] = "update"
        /\ pc[c] = "threw"
        /\ userData[c] = [isObject |-> TRUE, name |-> "", email |-> Undefined]
        /\ thrown[c] = UpdateValidationError
        /\ nQueries[c] = 0

\* The fields of data that are not undefined, name before email.
C6_Supplied(data) ==
    (IF data.name # Undefined THEN <<[col |-> "name", val |-> data.name]>> ELSE <<>>)
      \o (IF data.email # Undefined THEN <<[col |-> "email", val |-> data.email]>> ELSE <<>>)

\* C6: the statement of an update(id, data) that passed validation has one
\* SET assignment per field of name/email that is not undefined (name before
\* email), with placeholders $1..$n in that order, the WHERE placeholder
\* $(n+1), and n+1 parameters: the supplied values in the same order, then id.
C6_UpdateBuilder ==
    \A c \in Calls :
        (op[c] = "update" /\ nQueries[c] >= 1) =>
            LET f == C6_Supplied(userData[c])
                n == Len(f)
            IN  /\ query[c].kind = "UPDATE"
                /\ Len(query[c].sets) = n
                /\ \A k \in 1..n : /\ query[c].sets[k].col = f[k].col
                                   /\ query[c].sets[k].ph = k
                                   /\ params[c][k] = f[k].val
                /\ query[c].where = n + 1
                /\ Len(params[c]) = n + 1
                /\ params[c][n + 1] = userId[c]

\* An update with both fields, and so with WHERE id = $3.
C6_Witness ==
    \E c \in Calls :
        /\ op[c] = "update"
        /\ nQueries[c] >= 1
        /\ Len(query[c].sets) = 2
        /\ query[c].where = 3

\* C7 as stated: every row of the store has a non-empty name and a non-empty
\* email.
C7_PersistedFieldsNonEmpty ==
    \A s \in Slots :
        store[s] # NoRow =>
            /\ store[s].name \notin {"", Null}
            /\ store[s].email \notin {"", Null}

\* C8: findById(id) returns null exactly when the pool call that resolved
\* returned no row (no row of the store has that id), returns the row with
\* that id when one was returned, and rejects only when all 3 pool calls
\* failed.
C8_FindById ==
    \A c \in Calls :
        op[c] = "findById" =>
            /\ pc[c] = "returned" =>
                 /\ nQueries[c] = Len(errs[c]) + 1
                 /\ result[c] = NullResult <=> okRows[c] = <<>>
                 /\ result[c] = NullResult
                      <=> ~\E s \in Slots : store[s] # NoRow /\ store[s].id = userId[c]
                 /\ okRows[c] # <<>> =>
                      /\ result[c] = RowResult(okRows[c][1])
                      /\ okRows[c][1].id = userId[c]
                      /\ \E s \in Slots : store[s] = okRows[c][1]
            /\ pc[c] = "threw" =>
                 /\ Len(errs[c]) = 3
                 /\ nQueries[c] = 3
                 /\ thrown[c] = errs[c][3]

\* findById returned null for an id no row has, on its second attempt.
C8_Witness ==
    \E c \in Calls :
        /\ op[c] = "findById"
        /\ pc[c] = "returned"
        /\ result[c] = NullResult
        /\ Len(errs[c]) = 1
        /\ \E s \in Slots : store[s] # NoRow

\* C9 as stated: a delete(id) or valid update(id, data) whose id matches no
\* row returns null, the value findById returns for a missing row.
C9_NotFoundIsNull ==
    \A c \in Calls :
        (op[c] \in {"update", "delete"} /\ pc[c] = "returned" /\ okRows[c] = <<>>)
            => result[c] = NullResult

\* C10: a pool call of update(id, data) that takes effect changes, in the row
\* with that id, exactly the fields of name/email that data supplies (to the
\* supplied values), leaves that row's id and its other field as they were,
\* and leaves every other row as it was; and no step of any operation changes
\* the id of a row that exists before and after it.
C10_UpdateFrame ==
    [][/\ \A s \in Slots :
             (store[s] # NoRow /\ store'[s] # NoRow) => store'[s].id = store[s].id
       /\ \A c \in Calls :
             (op[c] = "update" /\ pc[c] = "query"
                /\ (pc'[c] = "returned" \/ store' # store)) =>
                 \A s \in Slots :
                     IF store[s] # NoRow /\ store[s].id = userId[c]
                       THEN /\ store'[s].id = store[s].id
                            /\ store'[s].name =
                                 (IF userData[c].name = Undefined
                                    THEN store[s].name ELSE userData[c].name)
                            /\ store'[s].email =
                                 (IF userData[c].email = Undefined
                                    THEN store[s].email ELSE userData[c].email)
                       ELSE store'[s] = store[s]]_vars

\* update(id, {name: "b"}) returned its row, renamed and with its email kept,
\* while another row keeps the old name.
C10_Witness ==
    \E c \in Calls :
        /\ op[c] = "update"
        /\ pc[c] = "returned"
        /\ userData[c] = [isObject |-> TRUE, name |-> "b", email |-> Undefined]
        /\ \E s, t \in Slots :
              /\ store[s] = [id |-> userId[c], name |-> "b", email |-> "x"]
              /\ store[t] # NoRow
              /\ store[t].id # userId[c]
              /\ store[t].name = "a"

\* C11 as stated: the statement of a repository call takes effect on a row of
\* the store at most once, so that a create adds at most one row; and a
\* delete that removed a row returns that row.
C11_AtMostOnce ==
    \A c \in Calls :
        /\ op[c] \in {"create", "update", "delete"} =>
             Cardinality({k \in DOMAIN effects[c] : effects[c][k] # <<>>}) <= 1
        /\ (op[c] = "delete" /\ pc[c] = "returned") =>
             \A k \in DOMAIN effects[c] :
                 effects[c][k] # <<>> => result[c] = RowResult(effects[c][k][1])

\* C12: a create(data) with non-empty name and email that succeeds returns
\* the row it inserted: name and email are the supplied values, the id is
\* the id of no row the store held before the insert, and the store then
\* holds the returned row.
C12_CreateReturnsNewRow ==
    [][\A c \in Calls :
          (op[c] = "create" /\ pc[c] = "query" /\ pc'[c] = "returned") =>
              /\ result'[c].tag = "row"
              /\ LET row == result'[c].rows[1]
                 IN  /\ row.name = userData[c].name
                     /\ row.email = userData[c].email
                     /\ row.name \notin {"", Undefined, Null}
                     /\ row.email \notin {"", Undefined, Null}
                     /\ row.id \in Ids
                     /\ \A s \in Slots : store[s] # NoRow => store[s].id # row.id
                     /\ \E s \in Slots : store'[s] = row]_vars

\* create({name: "b", email: "x"}) returned the row with the second id the
\* store generated, on its second attempt.
C12_Witness ==
    \E c \in Calls :
        /\ op[c] = "create"
        /\ pc[c] = "returned"
        /\ Len(errs[c]) = 1
        /\ result[c] = RowResult([id |-> "id2", name |-> "b", email |-> "x"])
        /\ \E s \in Slots : store[s] # NoRow /\ store[s].id = "id1"

\* C13: no step of a findAll or findById call changes the store, and a
\* findAll that resolves when another findAll resolved before it, with no
\* statement of a create, update or delete run in the store since, returns
\* the same set of rows.
C13_ReadsIdempotent ==
    [][\A c \in Calls :
          /\ (op[c] \in {"findAll", "findById"} /\ pc'[c] # pc[c]) =>
                 (store' = store /\ nextId' = nextId)
          /\ (op[c] = "findAll" /\ pc[c] = "query" /\ pc'[c] = "returned"
                /\ lastAll.n > 0) =>
                 RowSet(result'[c].rows) = lastAll.rows]_vars

\* A second findAll in a row returned a non-empty set after a failed attempt.
C13_Witness ==
    \E c \in Calls :
        /\ op[c] = "findAll"
        /\ pc[c] = "returned"
        /\ Len(errs[c]) >= 1
        /\ lastAll.n = 2
        /\ lastAll.rows # {}
        /\ RowSet(result[c].rows) = lastAll.rows

\* C14: every call counts its own attempts from 0: its loop counter is the
\* number of its own failed pool calls, whatever the other calls did, and it
\* makes between 1 and 3 pool calls, rejecting only after 3 failures of its
\* own.
C14_OwnAttemptCounter ==
    \A c \in Calls :
        /\ nQueries[c] <= 3
        /\ pc[c] = "query" =>
             (i[c] = Len(errs[c]) /\ nQueries[c] = Len(errs[c]) + 1)
        /\ pc[c] = "backoff" =>
             (i[c] = Len(errs[c]) - 1 /\ nQueries[c] = Len(errs[c]))
        /\ pc[c] = "returned" =>
             (nQueries[c] >= 1 /\ nQueries[c] = Len(errs[c]) + 1)
        /\ (pc[c] = "threw" /\ thrown[c] \notin ValidationErrors) =>
             (nQueries[c] = 3 /\ Len(errs[c]) = 3)

\* One call is on its third attempt while another is on its first.
C14_Witness ==
    /\ pc[1] = "query" /\ i[1] = 2 /\ Len(errs[1]) = 2
    /\ pc[2] = "query" /\ i[2] = 0 /\ nQueries[2] = 1

\* C15: whatever error a pool call rejects with, a failure of attempt 1 or 2
\* starts the backoff (its delay is awaited and the next pool call follows),
\* and only a failure of attempt 3 rejects the call.
C15_RetriesAnyError ==
    [][\A c \in Calls :
          /\ Len(errs'[c]) > Len(errs[c]) =>
                IF Len(errs'[c]) < 3
                  THEN /\ pc'[c] = "backoff"
                       /\ Len(delays'[c]) = Len(delays[c]) + 1
                       /\ thrown'[c] = NoError
                  ELSE pc'[c] = "threw"
          /\ (pc[c] = "backoff" /\ pc'[c] # "backoff") =>
                (pc'[c] = "query" /\ nQueries'[c] = nQueries[c] + 1)]_vars

\* A second pool call was issued after a constraint violation (23505).
C15_Witness ==
    \E c \in Calls :
        /\ pc[c] = "query"
        /\ nQueries[c] = 2
        /\ errs[c] = <<PoolError("23505", 1)>>
        /\ delays[c] = <<1000>>

\* C17: a call suspended in a pool call or in a backoff blocks no other call:
\* another caller can invoke a method, the pool call of another call can
\* settle, its backoff timer can fire and its outcome can be taken.
C17_NoBlocking ==
    \A c, d \in Calls :
        (c # d /\ pc[c] \in {"query", "backoff"}) =>
            /\ pc[d] = "idle" => ENABLED Invoke(d)
            /\ pc[d] = "query" =>
                 /\ ENABLED (PoolReject(d, "ETIMEDOUT", FALSE) /\ TrackReads)
                 /\ Executable(store, nextId, query[d], params[d])
                      => ENABLED (PoolResolve(d) /\ TrackReads)
            /\ pc[d] = "backoff" => ENABLED TimerFires(d)
            /\ pc[d] \in {"returned", "threw"} => ENABLED Settle(d)

\* One call waits in its backoff while another is in its second pool call.
C17_Witness ==
    /\ pc[1] = "backoff"
    /\ pc[2] = "query"
    /\ nQueries[2] = 2

\* C16: provided every pool call settles and every backoff timer fires, a
\* call that was started completes (returns or rejects); it makes at most 3
\* pool calls and awaits at most 2 backoff delays; and from a pool call or a
\* backoff it goes nowhere but to its next pool call, its backoff or its
\* completion.
C16_Completes ==
    /\ [](\A c \in Calls : nQueries[c] <= 3 /\ Len(delays[c]) <= 2)
    /\ [][\A c \in Calls :
             pc[c] \in {"query", "backoff"} =>
                 /\ pc'[c] \in {"query", "backoff", "returned", "threw"}
                 /\ op'[c] = op[c]
                 /\ nQueries'[c] >= nQueries[c]]_vars
    /\ \A c \in Calls :
          (pc[c] \in {"query", "backoff"}) ~> (pc[c] \in {"returned", "threw"})

\* A call rejected after 3 pool calls and 2 delays while another call waits
\* in its backoff.
C16_Witness ==
    \E c, d \in Calls :
        /\ pc[c] = "threw"
        /\ nQueries[c] = 3
        /\ Len(delays[c]) = 2
        /\ pc[d] = "backoff"

\* C18: pool.end() is invoked at most once, whatever signals arrive and
\* whatever the repository calls are doing; and once the pool is drained no
\* call issues a pool call any more.
C18_DrainedOnce ==
    [][/\ endCalls' <= 1
       /\ drained => \A c \in Calls : nQueries'[c] <= nQueries[c]]_vars

====
